---- MODULE Spec2Model ----
(***************************************************************************)
(* Session / lineage store and retrieval tool layer of the legal agent     *)
(* proof of concept (src/legal-agent-poc/src/main.py, agent.py).           *)
(*                                                                         *)
(* The SQLite database is two tables kept as sequences in rowid (insert)   *)
(* order.  Every POST /query request is a process with a program counter;  *)
(* its steps are the database statements of post_query, between which      *)
(* another request (another connection, possibly another worker process)   *)
(* can run, and the awaited agent run.  uuid4 values are distinct per       *)
(* request; datetime.now() is a strictly increasing clock, so no two       *)
(* requests draw the same timestamp.  The text columns user_query, answer, *)
(* confidence and reasoning are carried through the code untouched and are *)
(* left out.                                                               *)
(*                                                                         *)
(* Spec     POST /query requests running concurrently.  The GET handlers   *)
(*          write nothing; get_lineage and list_sessions are the bodies    *)
(*          they would return in the current state.                        *)
(* SeqSpec  one client sending one request at a time, GET requests         *)
(*          included.                                                      *)
(* ToolSpec the retrieval tools applied to what the vector store answers.  *)
(***************************************************************************)
EXTENDS Integers, Sequences, FiniteSets, TLC

\* ------------------------------------------------------------------ bounds
\* POST /query requests in one behaviour
MaxRequests == 3
\* requests that may be between their first and last statement at one time
MaxInFlight == 2

\* a session id a client makes up; NoSessionId is an absent (or empty) one
ClientSessionIds == {"s1"}
NoSessionId == "-"
\* str(uuid.uuid4()) drawn by the n-th request
UuidPool == <<"u1", "u2", "u3", "u4", "u5", "u6">>
\* document ids the agent can cite, and the citation lists one run may give
CiteLists == {<<"A", "B">>, <<"B", "A", "C", "B">>}
\* a session id no request ever used
UnknownSessionId == "s9"

Requests == 1..MaxRequests

VARIABLES
    sessions,        \* table sessions(session_id PRIMARY KEY, created_at)
    queries,         \* table queries(query_id, session_id, result_json, messages_json, created_at)
    clock,           \* datetime.now(timezone.utc)
    pc,              \* per request: position in post_query
    session_id,      \* per request: local session_id
    now,             \* per request: local now
    existing,        \* per request: local existing (row found by the SELECT)
    prev_rows,       \* per request: local prev_rows (messages_json column)
    message_history, \* per request: local message_history
    response_of,     \* endpoint whose response is the latest one: none, lineage, sessions
    lineage_resp,    \* body returned by GET /lineage/{session_id}
    sessions_resp,   \* body returned by GET /sessions
    tool,            \* retrieval tool called last: none, search_case_law, search_statutes
    raw_results,     \* what search_documents returned to that tool
    tool_out         \* what the tool returned to the agent

dbvars == <<sessions, queries, clock>>
reqvars == <<pc, session_id, now, existing, prev_rows, message_history>>
respvars == <<response_of, lineage_resp, sessions_resp>>
toolvars == <<tool, raw_results, tool_out>>
vars == <<sessions, queries, clock, pc, session_id, now, existing, prev_rows,
          message_history, response_of, lineage_resp, sessions_resp,
          tool, raw_results, tool_out>>

\* ------------------------------------------------- serialisation (pydantic)
\* result.new_messages(): the messages of this run only, a request and a response
NewMessages(r) == <<[kind |-> "request", turn |-> r], [kind |-> "response", turn |-> r]>>

\* ModelMessagesTypeAdapter.dump_json: a JSON array of objects, each a flat
\* key/value list
DumpJson(messages) ==
    [i \in 1..Len(messages) |-> <<"kind", messages[i].kind, "turn", messages[i].turn>>]

\* ModelMessagesTypeAdapter.validate_json
ValidateJson(blob) ==
    [i \in 1..Len(blob) |-> [kind |-> blob[i][2], turn |-> blob[i][4]]]

\* The LegalResult of a run that cites the documents `cites` at time `ts`
LegalResult(cites, ts) ==
    [sources_cited |->
        [i \in 1..Len(cites) |->
            [document_id |-> cites[i], relevance_score |-> i, retrieved_at |-> ts]]]

\* result.output.model_dump_json()
ModelDumpJson(result) ==
    <<"sources_cited",
      [i \in 1..Len(result.sources_cited) |->
          <<"document_id", result.sources_cited[i].document_id,
            "relevance_score", result.sources_cited[i].relevance_score,
            "retrieved_at", result.sources_cited[i].retrieved_at>>]>>

\* json.loads(row["result_json"])
JsonLoads(text) ==
    [sources_cited |->
        [i \in 1..Len(text[2]) |->
            [document_id |-> text[2][i][2], relevance_score |-> text[2][i][4],
             retrieved_at |-> text[2][i][6]]]]

\* ------------------------------------------------------------ SQL
\* faulty variant of SelectSession: the lookup never finds the row
SelectSessionNever(tbl, sid) == FALSE

\* SELECT 1 FROM sessions WHERE session_id = ?  ... .fetchone()
SelectSession(tbl, sid) == \E i \in 1..Len(tbl) : tbl[i].session_id = sid

\* session_id TEXT PRIMARY KEY: an INSERT of a present key raises IntegrityError
PrimaryKeyConflict(tbl, sid) == \E i \in 1..Len(tbl) : tbl[i].session_id = sid

\* faulty variant of WhereSession: the WHERE clause is missing
WhereSessionAll(rows, sid) == rows

\* rows of one session, in rowid order
RECURSIVE WhereSession(_, _)
WhereSession(rows, sid) ==
    IF rows = <<>> THEN <<>>
    ELSE IF Head(rows).session_id = sid
         THEN <<Head(rows)>> \o WhereSession(Tail(rows), sid)
         ELSE WhereSession(Tail(rows), sid)

\* one step of the sorter: `row` goes after every row that is not later
InsertAscending(sorted, row) ==
    LET k == Cardinality({i \in 1..Len(sorted) : sorted[i].created_at <= row.created_at})
    IN SubSeq(sorted, 1, k) \o <<row>> \o SubSeq(sorted, k + 1, Len(sorted))

\* ORDER BY created_at
RECURSIVE OrderByCreatedAt(_)
OrderByCreatedAt(rows) ==
    IF rows = <<>> THEN <<>>
    ELSE InsertAscending(OrderByCreatedAt(SubSeq(rows, 1, Len(rows) - 1)), rows[Len(rows)])

\* faulty variant of SelectQueries: the ORDER BY clause is missing (rowid order)
SelectQueriesRowidOrder(tbl, sid) == WhereSession(tbl, sid)

\* SELECT ... FROM queries WHERE session_id = ? ORDER BY created_at
SelectQueries(tbl, sid) == OrderByCreatedAt(WhereSession(tbl, sid))

\* faulty variant of LastMessagesJson: prev_rows[0]
FirstMessagesJson(rows) == rows[1]

\* prev_rows[-1]["messages_json"]
LastMessagesJson(rows) == rows[Len(rows)]

\* ------------------------------------------------------------ POST /query
None == [present |-> FALSE, messages |-> <<>>]

NoLineage == [session_id |-> NoSessionId, total_queries |-> 0, unique_sources |-> 0,
              queries |-> <<>>, all_sources |-> <<>>]

\* the response of the previous GET has been delivered
NoResponse ==
    /\ response_of' = "none"
    /\ lineage_resp' = NoLineage
    /\ sessions_resp' = <<>>

Started == {r \in Requests : pc[r] # "idle"}

InFlight == {r \in Requests : pc[r] \in {"ensure", "load", "run"}}

\* session ids returned by earlier responses of POST /query (line 128)
Returned == {session_id[p] : p \in {q \in Requests : pc[q] = "done"}}

\* what a client can put into the session_id field of a request
SessionInputs == ClientSessionIds \cup {NoSessionId} \cup Returned

\* lines 67-76: session_id, query_id, now, the connection, the SELECT.  When the
\* row is found, lines 77-82 touch nothing and the request is at line 84.
\* Requests are numbered in the order in which they arrive.
StartQuery(r, sid) ==
    /\ pc[r] = "idle"
    /\ \A p \in 1..(r - 1) : pc[p] # "idle"
    /\ LET id == IF sid = NoSessionId THEN UuidPool[r] ELSE sid
       IN /\ session_id' = [session_id EXCEPT ![r] = id]
          /\ existing' = [existing EXCEPT ![r] = SelectSession(sessions, id)]
          /\ pc' = [pc EXCEPT ![r] = IF SelectSession(sessions, id) THEN "load" ELSE "ensure"]
    /\ now' = [now EXCEPT ![r] = clock]
    /\ clock' = clock + 1
    /\ NoResponse
    /\ UNCHANGED <<sessions, queries, prev_rows, message_history, toolvars>>

\* lines 77-82, not existing: INSERT INTO sessions; commit
EnsureSession(r) ==
    /\ pc[r] = "ensure"
    /\ IF PrimaryKeyConflict(sessions, session_id[r])
       THEN \* sqlite3.IntegrityError leaves post_query
            /\ pc' = [pc EXCEPT ![r] = "conflict"]
            /\ UNCHANGED sessions
       ELSE /\ sessions' = Append(sessions,
                   [session_id |-> session_id[r], created_at |-> now[r]])
            /\ pc' = [pc EXCEPT ![r] = "load"]
    /\ NoResponse
    /\ UNCHANGED <<queries, clock, session_id, now, existing, prev_rows,
                   message_history, toolvars>>

\* lines 84-96: prev_rows, message_history
LoadHistory(r) ==
    /\ pc[r] = "load"
    /\ LET rows == SelectQueries(queries, session_id[r])
           blobs == [i \in 1..Len(rows) |-> rows[i].messages_json]
       IN /\ prev_rows' = [prev_rows EXCEPT ![r] = blobs]
          /\ message_history' = [message_history EXCEPT ![r] =
                IF blobs # <<>>
                THEN [present |-> TRUE, messages |-> ValidateJson(LastMessagesJson(blobs))]
                ELSE None]
    /\ pc' = [pc EXCEPT ![r] = "run"]
    /\ NoResponse
    /\ UNCHANGED <<dbvars, session_id, now, existing, toolvars>>

\* post_query is left (by return or by an exception): its locals existing,
\* prev_rows and message_history are gone
Return(r) ==
    /\ existing' = [existing EXCEPT ![r] = FALSE]
    /\ prev_rows' = [prev_rows EXCEPT ![r] = <<>>]
    /\ message_history' = [message_history EXCEPT ![r] = None]

\* lines 98-131: the run returns a result; new messages serialised; INSERT INTO
\* queries; commit; close
PersistQuery(r, cites) ==
    /\ pc[r] = "run"
    /\ queries' = Append(queries,
            [query_id |-> r,
             session_id |-> session_id[r],
             result_json |-> ModelDumpJson(LegalResult(cites, now[r])),
             messages_json |-> DumpJson(NewMessages(r)),
             created_at |-> now[r]])
    /\ pc' = [pc EXCEPT ![r] = "done"]
    /\ Return(r)
    /\ NoResponse
    /\ UNCHANGED <<sessions, clock, session_id, now, toolvars>>

\* faulty variant of AgentRunFails: the row is written although the run failed
AgentRunFailsAndPersists(r) ==
    /\ pc[r] = "run"
    /\ queries' = Append(queries,
            [query_id |-> r,
             session_id |-> session_id[r],
             result_json |-> ModelDumpJson(LegalResult(<<>>, now[r])),
             messages_json |-> DumpJson(NewMessages(r)),
             created_at |-> now[r]])
    /\ pc' = [pc EXCEPT ![r] = "failed"]
    /\ Return(r)
    /\ NoResponse
    /\ UNCHANGED <<sessions, clock, session_id, now, toolvars>>

\* lines 100-104: legal_agent.run raises (a validation error); nothing catches it
AgentRunFails(r) ==
    /\ pc[r] = "run"
    /\ pc' = [pc EXCEPT ![r] = "failed"]
    /\ Return(r)
    /\ NoResponse
    /\ UNCHANGED <<dbvars, session_id, now, toolvars>>

\* ------------------------------------------------------------ GET /lineage
\* faulty variant of Remember: seen_sources[doc_id] = source without the test
RememberLatest(seen_sources, source) ==
    IF \E i \in 1..Len(seen_sources) : seen_sources[i].document_id = source.document_id
    THEN [i \in 1..Len(seen_sources) |->
             IF seen_sources[i].document_id = source.document_id
             THEN source ELSE seen_sources[i]]
    ELSE Append(seen_sources, source)

\* lines 162-164: if doc_id not in seen_sources: seen_sources[doc_id] = source
Remember(seen_sources, source) ==
    IF \E i \in 1..Len(seen_sources) : seen_sources[i].document_id = source.document_id
    THEN seen_sources
    ELSE Append(seen_sources, source)

\* lines 161-164: the inner loop over one query's sources
RECURSIVE ScanSources(_, _)
ScanSources(seen_sources, sources) ==
    IF sources = <<>> THEN seen_sources
    ELSE ScanSources(Remember(seen_sources, Head(sources)), Tail(sources))

\* lines 157-164: the outer loop; seen_sources is a dict, kept in insertion order
RECURSIVE ScanRows(_, _)
ScanRows(seen_sources, rows) ==
    IF rows = <<>> THEN seen_sources
    ELSE ScanRows(ScanSources(seen_sources, JsonLoads(Head(rows).result_json).sources_cited),
                  Tail(rows))

\* lines 166-176: the entry appended to queries for one row
LineageEntry(row) ==
    [query_id |-> row.query_id,
     sources_cited |-> JsonLoads(row.result_json).sources_cited,
     created_at |-> row.created_at]

\* lines 136-184: the body get_lineage returns
get_lineage(sid) ==
    LET rows == SelectQueries(queries, sid)
        seen_sources == ScanRows(<<>>, rows)
    IN IF rows = <<>>
       THEN [session_id |-> sid, total_queries |-> 0, unique_sources |-> 0,
             queries |-> <<>>, all_sources |-> <<>>]
       ELSE [session_id |-> sid,
             total_queries |-> Len(rows),
             unique_sources |-> Len(seen_sources),
             queries |-> [i \in 1..Len(rows) |-> LineageEntry(rows[i])],
             all_sources |-> seen_sources]

GetLineage(sid) ==
    /\ response_of' = "lineage"
    /\ lineage_resp' = get_lineage(sid)
    /\ sessions_resp' = <<>>
    /\ UNCHANGED <<dbvars, reqvars, toolvars>>

\* ------------------------------------------------------------ GET /sessions
\* COUNT(q.query_id) over the rows the LEFT JOIN pairs with session `sid`
QueryCount(sid) == Cardinality({i \in 1..Len(queries) : queries[i].session_id = sid})

\* faulty variant of LeftJoinGroup: an inner JOIN
InnerJoinGroup ==
    SelectSeq([i \in 1..Len(sessions) |->
                  [session_id |-> sessions[i].session_id,
                   created_at |-> sessions[i].created_at,
                   query_count |-> QueryCount(sessions[i].session_id)]],
              LAMBDA row : row.query_count > 0)

\* FROM sessions s LEFT JOIN queries q ... GROUP BY s.session_id: one row per session
LeftJoinGroup ==
    [i \in 1..Len(sessions) |->
        [session_id |-> sessions[i].session_id,
         created_at |-> sessions[i].created_at,
         query_count |-> QueryCount(sessions[i].session_id)]]

\* one step of the sorter: `row` goes after every row that is not earlier
InsertDescending(sorted, row) ==
    LET k == Cardinality({i \in 1..Len(sorted) : sorted[i].created_at >= row.created_at})
    IN SubSeq(sorted, 1, k) \o <<row>> \o SubSeq(sorted, k + 1, Len(sorted))

\* ORDER BY s.created_at DESC
RECURSIVE OrderByCreatedAtDesc(_)
OrderByCreatedAtDesc(rows) ==
    IF rows = <<>> THEN <<>>
    ELSE InsertDescending(OrderByCreatedAtDesc(SubSeq(rows, 1, Len(rows) - 1)),
                          rows[Len(rows)])

\* lines 189-204: the body list_sessions returns
list_sessions == OrderByCreatedAtDesc(LeftJoinGroup)

ListSessions ==
    /\ response_of' = "sessions"
    /\ sessions_resp' = list_sessions
    /\ lineage_resp' = NoLineage
    /\ UNCHANGED <<dbvars, reqvars, toolvars>>

\* session ids asked of GET /lineage
LineageInputs == ClientSessionIds \cup {UnknownSessionId} \cup {session_id[r] : r \in Started}

\* ------------------------------------------------------------ retrieval tools
\* titles as character sequences (Python's `in` is a substring test)
BGer == <<"B", "G", "e", "r">>
Mietgericht == <<"M", "i", "e", "t", "g", "e", "r", "i", "c", "h", "t">>
ORArt == <<"O", "R", " ", "A", "r", "t">>

\* documents search_documents can return: document_id and title (section, text
\* and score are passed through)
Corpus ==
    { [document_id |-> "d1", title |-> <<"B", "G", "e", "r", " ", "1">>],
      [document_id |-> "d2", title |-> <<"O", "R", " ", "A", "r", "t", " ", "5">>],
      [document_id |-> "d3", title |-> <<"Z", "H", " ", "M", "i", "e", "t", "g", "e", "r",
                                         "i", "c", "h", "t", " ", "2">>],
      [document_id |-> "d4", title |-> <<"O", "R", " ", "5">>],
      [document_id |-> "d5", title |-> <<"b", "g", "e", "r", " ", "1">>],
      [document_id |-> "d6", title |-> <<"B", "G", "e", "r", " ", "o", "n", " ", "O", "R",
                                         " ", "A", "r", "t", " ", "5">>] }

\* search_documents(query, limit=3)
SearchLimit == 3

\* needle in haystack, scanning the start positions from `i`
RECURSIVE FindFrom(_, _, _)
FindFrom(needle, haystack, i) ==
    IF i + Len(needle) - 1 > Len(haystack) THEN FALSE
    ELSE IF SubSeq(haystack, i, i + Len(needle) - 1) = needle THEN TRUE
    ELSE FindFrom(needle, haystack, i + 1)

\* needle in haystack
In(needle, haystack) == FindFrom(needle, haystack, 1)

\* faulty variant of IsCourtDecision: the cantonal marker is forgotten
IsFederalDecision(r) == In(BGer, r.title)

\* the condition of the comprehension of search_case_law
IsCourtDecision(r) == In(BGer, r.title) \/ In(Mietgericht, r.title)

\* the condition of the comprehension of search_statutes
IsStatute(r) == In(ORArt, r.title)

\* [r for r in results if "BGer" in r["title"] or "Mietgericht" in r["title"]]
RECURSIVE CourtDecisions(_)
CourtDecisions(results) ==
    IF results = <<>> THEN <<>>
    ELSE IF IsCourtDecision(Head(results))
         THEN <<Head(results)>> \o CourtDecisions(Tail(results))
         ELSE CourtDecisions(Tail(results))

\* [r for r in results if "OR Art" in r["title"]]
RECURSIVE Statutes(_)
Statutes(results) ==
    IF results = <<>> THEN <<>>
    ELSE IF IsStatute(Head(results))
         THEN <<Head(results)>> \o Statutes(Tail(results))
         ELSE Statutes(Tail(results))

\* what the vector store can answer: at most `limit` distinct documents, ranked
RECURSIVE Rankings(_)
Rankings(n) ==
    IF n = 0 THEN {<<>>}
    ELSE Rankings(n - 1) \cup
         {Append(s, d) : s \in {t \in Rankings(n - 1) : Len(t) = n - 1},
                         d \in Corpus}

SearchResults == {s \in Rankings(SearchLimit) : \A i, j \in 1..Len(s) : i # j => s[i] # s[j]}

search_case_law(results) ==
    /\ tool' = "search_case_law"
    /\ raw_results' = results
    /\ tool_out' = CourtDecisions(results)
    /\ UNCHANGED <<dbvars, reqvars, respvars>>

search_statutes(results) ==
    /\ tool' = "search_statutes"
    /\ raw_results' = results
    /\ tool_out' = Statutes(results)
    /\ UNCHANGED <<dbvars, reqvars, respvars>>

Init ==
    /\ sessions = <<>>
    /\ queries = <<>>
    /\ clock = 1
    /\ pc = [r \in Requests |-> "idle"]
    /\ session_id = [r \in Requests |-> NoSessionId]
    /\ now = [r \in Requests |-> 0]
    /\ existing = [r \in Requests |-> FALSE]
    /\ prev_rows = [r \in Requests |-> <<>>]
    /\ message_history = [r \in Requests |-> None]
    /\ response_of = "none"
    /\ lineage_resp = NoLineage
    /\ sessions_resp = <<>>
    /\ tool = "none"
    /\ raw_results = <<>>
    /\ tool_out = <<>>

\* a client's POST /query with any session id it can know
Post(r) == \E sid \in SessionInputs : StartQuery(r, sid)

\* concurrent requests: POST /query handlers interleave at their statements
Next ==
    \/ \E r \in Requests : Cardinality(InFlight) < MaxInFlight /\ Post(r)
    \/ \E r \in Requests : EnsureSession(r)
    \/ \E r \in Requests : LoadHistory(r)
    \/ \E r \in Requests, cites \in CiteLists : PersistQuery(r, cites)
    \/ \E r \in Requests : AgentRunFails(r)

Spec == Init /\ [][Next]_vars

\* one client, one request at a time, reading lineage and sessions in between
SeqNext ==
    \/ \E r \in Requests : InFlight = {} /\ Post(r)
    \/ \E r \in Requests : EnsureSession(r)
    \/ \E r \in Requests : LoadHistory(r)
    \/ \E r \in Requests, cites \in CiteLists : PersistQuery(r, cites)
    \/ \E r \in Requests : AgentRunFails(r)
    \/ \E sid \in LineageInputs : InFlight = {} /\ GetLineage(sid)
    \/ InFlight = {} /\ ListSessions

SeqSpec == Init /\ [][SeqNext]_vars

\* the tool calls of one agent run
ToolNext ==
    \/ \E results \in SearchResults : search_case_law(results)
    \/ \E results \in SearchResults : search_statutes(results)

ToolSpec == Init /\ [][ToolNext]_vars

\* ==================================================================
\* Properties
\* ==================================================================
Range(s) == {s[i] : i \in 1..Len(s)}

Max(S) == CHOOSE x \in S : \A y \in S : y <= x

Min(S) == CHOOSE x \in S : \A y \in S : x <= y

\* the row POST request p persisted
RowOf(p) == queries[CHOOSE i \in 1..Len(queries) : queries[i].query_id = p]

\* positions of the rows of session sid in the queries table
RowsOfSession(sid) == {i \in 1..Len(queries) : queries[i].session_id = sid}

\* requests of the same session as r that started before r and completed
PriorDone(r) == {p \in 1..(r - 1) : pc[p] = "done" /\ session_id[p] = session_id[r]}

\* completed requests of session sid
Completed(sid) == {r \in Requests : pc[r] = "done" /\ session_id[r] = sid}

\* ---- C1
\* C1 (history continuity): with requests submitted one after the other, the
\* history a request has loaded when its agent runs is the messages_json blob
\* persisted by the latest completed earlier request of its session (none when
\* there is no such request): re-serialised it is that blob, and it parses
\* from it.
C1_HistoryContinuity ==
    \A r \in Requests :
        pc[r] = "run" =>
            IF PriorDone(r) = {}
            THEN message_history[r] = None
            ELSE LET blob == RowOf(Max(PriorDone(r))).messages_json
                 IN /\ message_history[r].present
                    /\ DumpJson(message_history[r].messages) = blob
                    /\ message_history[r].messages = ValidateJson(blob)

\* the third query of a session runs with the second one's blob as history
C1_Witness ==
    \E r \in Requests :
        /\ pc[r] = "run"
        /\ Cardinality(PriorDone(r)) = 2
        /\ message_history[r].present

\* ---- C2
\* C2 (cumulative history): the history handed to the agent for a query holds
\* the messages of every earlier completed turn of the session.
C2_CumulativeHistory ==
    \A r \in Requests :
        pc[r] = "run" =>
            \A p \in PriorDone(r) :
                Range(NewMessages(p)) \subseteq Range(message_history[r].messages)

\* ---- C3
\* C3 (benign duplicate session insert): no request ends in the IntegrityError
\* of the session insert, and a session id never has two rows.
C3_BenignInsertRace ==
    /\ \A r \in Requests : pc[r] # "conflict"
    /\ \A i, j \in 1..Len(sessions) :
          sessions[i].session_id = sessions[j].session_id => i = j

\* ---- C4
\* C4 (ensure_session idempotent): with requests submitted one after the
\* other, once a request is past the session step its session id has exactly
\* one row, whose created_at is the `now` of the first request of that session,
\* and no request fails on the insert.
C4_EnsureSessionIdempotent ==
    \A r \in Requests :
        pc[r] \in {"load", "run", "done", "failed", "conflict"} =>
            LET rows == {i \in 1..Len(sessions) : sessions[i].session_id = session_id[r]}
                first == Min({p \in Started : session_id[p] = session_id[r]})
            IN /\ pc[r] # "conflict"
               /\ Cardinality(rows) = 1
               /\ \A i \in rows : sessions[i].created_at = now[first]

\* three completed queries on one session
C4_Witness ==
    \E r \in Requests : pc[r] = "done" /\ Cardinality(PriorDone(r)) = 2

\* ---- C5
\* every citation of session sid: <<created_at of its query, position, record>>
Citations(sid) ==
    UNION { LET cited == JsonLoads(queries[i].result_json).sources_cited
            IN { <<queries[i].created_at, k, cited[k]>> : k \in 1..Len(cited) }
            : i \in RowsOfSession(sid) }

\* c comes no later than d in the scan: earlier query, or same query and earlier place
ScannedBefore(c, d) == c[1] < d[1] \/ (c[1] = d[1] /\ c[2] <= d[2])

\* C5 (lineage de-duplication): for every session id, all_sources of GET
\* /lineage holds one record per distinct cited document_id, unique_sources is
\* their number, and each record is the one of the first citation of its
\* document in ascending created_at order (then sources_cited order).
C5_LineageDedup ==
    \A sid \in LineageInputs :
        LET resp == get_lineage(sid)
            cited == Citations(sid)
            docs == {c[3].document_id : c \in cited}
        IN /\ {resp.all_sources[i].document_id : i \in 1..Len(resp.all_sources)} = docs
           /\ Len(resp.all_sources) = Cardinality(docs)
           /\ resp.unique_sources = Cardinality(docs)
           /\ \A i \in 1..Len(resp.all_sources) :
                 \E c \in cited :
                     /\ c[3] = resp.all_sources[i]
                     /\ \A d \in cited :
                           d[3].document_id = c[3].document_id => ScannedBefore(c, d)

\* two queries of one session, persisted in the reverse of their creation
\* order, citing three documents between them
C5_Witness ==
    \E sid \in LineageInputs :
        /\ get_lineage(sid).total_queries = 2
        /\ get_lineage(sid).unique_sources = 3
        /\ \E i, j \in RowsOfSession(sid) :
              i < j /\ queries[i].created_at > queries[j].created_at

\* ---- C6
\* C6 (list_sessions): GET /sessions lists every session row exactly once with
\* its created_at, query_count is the number of completed queries of the
\* session (0 when there are none), newest session first.
C6_ListSessions ==
    LET resp == list_sessions
    IN /\ Len(resp) = Len(sessions)
       /\ \A i \in 1..Len(sessions) :
             Cardinality({k \in 1..Len(resp) :
                 /\ resp[k].session_id = sessions[i].session_id
                 /\ resp[k].created_at = sessions[i].created_at}) = 1
       /\ \A k \in 1..Len(resp) :
             resp[k].query_count = Cardinality(Completed(resp[k].session_id))
       /\ \A k, l \in 1..Len(resp) : k < l => resp[k].created_at >= resp[l].created_at

\* a session whose only query failed in the agent is listed with count 0, next
\* to a session with a query
C6_Witness ==
    /\ \E r \in Requests :
          /\ pc[r] = "failed"
          /\ \E k \in 1..Len(list_sessions) :
                /\ list_sessions[k].session_id = session_id[r]
                /\ list_sessions[k].query_count = 0
    /\ \E k \in 1..Len(list_sessions) : list_sessions[k].query_count > 0

\* ---- C7
\* marker occurs in title, position by position
Occurs(marker, title) ==
    \E i \in 1..Len(title) :
        /\ i + Len(marker) - 1 <= Len(title)
        /\ \A k \in 1..Len(marker) : title[i + k - 1] = marker[k]

\* out is exactly the members of raw that satisfy keep, in raw's order
\* (raw has no repeated member)
ExactlyTheKept(out, raw, keep) ==
    /\ \A i \in 1..Len(raw) : (raw[i] \in Range(out)) <=> (raw[i] \in keep)
    /\ Range(out) \subseteq Range(raw)
    /\ \A i, j \in 1..Len(out) :
          i < j => \E a, b \in 1..Len(raw) : a < b /\ raw[a] = out[i] /\ raw[b] = out[j]

\* C7 (retrieval post-filters): search_case_law returns exactly the results
\* whose title contains "BGer" or "Mietgericht", search_statutes exactly those
\* whose title contains "OR Art", in the order given; with no match the result
\* is the empty sequence.
C7_PostFilters ==
    LET court == {d \in Corpus : Occurs(<<"B", "G", "e", "r">>, d.title)
                       \/ Occurs(<<"M", "i", "e", "t", "g", "e", "r", "i", "c", "h", "t">>,
                                 d.title)}
        statute == {d \in Corpus : Occurs(<<"O", "R", " ", "A", "r", "t">>, d.title)}
    IN /\ tool = "search_case_law" =>
             /\ ExactlyTheKept(tool_out, raw_results, court)
             /\ (\A i \in 1..Len(raw_results) : raw_results[i] \notin court) => tool_out = <<>>
       /\ tool = "search_statutes" =>
             /\ ExactlyTheKept(tool_out, raw_results, statute)
             /\ (\A i \in 1..Len(raw_results) : raw_results[i] \notin statute) => tool_out = <<>>

\* three results, the court decision of the Zurich rental court and a Federal
\* Supreme Court decision among them, the statute dropped
C7_Witness ==
    /\ tool = "search_case_law"
    /\ Len(raw_results) = 3
    /\ Len(tool_out) = 2
    /\ tool_out[1].document_id = "d3"
    /\ tool_out[2].document_id = "d1"

\* ---- C8
\* the value line 96 gives message_history for a blob
Loaded(blob) == [present |-> TRUE, messages |-> ValidateJson(blob)]

\* C8 as stated (load_last_history under interleaving): the history a request
\* loads is the messages_json of the row persisted last for its session at
\* that moment, or none.
C8_LoadsLastPersisted ==
    [][\A r \in Requests :
         (pc[r] = "load" /\ pc'[r] = "run") =>
             LET rows == RowsOfSession(session_id[r])
             IN message_history'[r] =
                    IF rows = {} THEN None
                    ELSE Loaded(queries[Max(rows)].messages_json)]_vars

\* C8 as amended: the history a request loads is the messages_json of the row
\* of its session with the greatest created_at (the time its request started)
\* at that moment, or none.
C8_LoadsLatestCreated ==
    [][\A r \in Requests :
         (pc[r] = "load" /\ pc'[r] = "run") =>
             LET rows == RowsOfSession(session_id[r])
             IN IF rows = {} THEN message_history'[r] = None
                ELSE \E j \in rows :
                        /\ \A k \in rows : queries[k].created_at <= queries[j].created_at
                        /\ message_history'[r] = Loaded(queries[j].messages_json)]_vars

\* a request has just loaded (its session got no row since) a history that is
\* not the blob persisted last
C8_Witness ==
    \E r \in Requests :
        /\ pc[r] = "run"
        /\ message_history[r].present
        /\ Len(prev_rows[r]) = Cardinality(RowsOfSession(session_id[r]))
        /\ message_history[r] # Loaded(queries[Max(RowsOfSession(session_id[r]))].messages_json)

\* ---- C9
\* C9 (lineage completeness and order): for every session id, GET /lineage
\* has one entry per query row of that session and none of another session,
\* total_queries is the number of completed POST /query requests of the
\* session, and the entries are in ascending created_at order.
C9_LineageComplete ==
    \A sid \in LineageInputs :
        LET resp == get_lineage(sid)
            rows == RowsOfSession(sid)
        IN /\ resp.session_id = sid
           /\ resp.total_queries = Cardinality(Completed(sid))
           /\ Len(resp.queries) = Cardinality(rows)
           /\ \A i \in rows :
                 \E k \in 1..Len(resp.queries) :
                     /\ resp.queries[k].query_id = queries[i].query_id
                     /\ resp.queries[k].created_at = queries[i].created_at
                     /\ ModelDumpJson([sources_cited |-> resp.queries[k].sources_cited])
                            = queries[i].result_json
           /\ \A k \in 1..Len(resp.queries) :
                 \E i \in rows : queries[i].query_id = resp.queries[k].query_id
           /\ \A k, l \in 1..Len(resp.queries) :
                 k < l => resp.queries[k].created_at <= resp.queries[l].created_at

\* a first query without session id and a follow-up with the returned id:
\* total_queries is 2, while another session has a query of its own
C9_Witness ==
    \E r \in Requests :
        /\ session_id[r] = UuidPool[r]
        /\ Cardinality(Completed(session_id[r])) = 2
        /\ get_lineage(session_id[r]).total_queries = 2
        /\ \E i \in 1..Len(queries) : queries[i].session_id # session_id[r]

\* ---- C10
\* the body of GET /lineage for a session without queries
EmptyLineage(sid) ==
    [session_id |-> sid, total_queries |-> 0, unique_sources |-> 0,
     queries |-> <<>>, all_sources |-> <<>>]

\* C10 (failed agent run): the step in which the agent run fails leaves both
\* tables as they are; a failed request is never resumed or retried and never
\* has a query row; its session row is there, and while the session has no
\* query GET /lineage for it is the empty aggregate.
C10_FailedRunLeavesNoRow ==
    /\ [](\A r \in Requests :
             pc[r] = "failed" =>
                 /\ \A i \in 1..Len(queries) : queries[i].query_id # r
                 /\ \E i \in 1..Len(sessions) : sessions[i].session_id = session_id[r]
                 /\ (Completed(session_id[r]) = {} =>
                        get_lineage(session_id[r]) = EmptyLineage(session_id[r])))
    /\ [][\A r \in Requests :
             /\ (pc[r] = "run" /\ pc'[r] = "failed") =>
                    (queries' = queries /\ sessions' = sessions)
             /\ pc[r] = "failed" => pc'[r] = "failed"]_vars

\* the only query of a new session failed: the session is there with no query
C10_Witness ==
    \E r \in Requests :
        /\ pc[r] = "failed"
        /\ session_id[r] = UuidPool[r]
        /\ \E i \in 1..Len(sessions) : sessions[i].session_id = session_id[r]
        /\ get_lineage(session_id[r]).total_queries = 0
====
